---------------------------- MODULE Spec2Model ----------------------------
(***************************************************************************)
(* Model of the Nova paper-trading agent: the scan -> decide -> open /     *)
(* monitor / close position lifecycle of server.ts (startScanner),         *)
(* AutonomousEngine.analyzeAndTrade and SimulationEngine over the SQLite   *)
(* tables created in server.ts.                                            *)
(*                                                                         *)
(* JavaScript runs one callback at a time, and better-sqlite3 statements   *)
(* and transactions are synchronous: code between two awaits is one atomic *)
(* step, and the only interleaving points are the awaits (the candidate    *)
(* fetch and SimulationEngine.getCurrentPrice).                            *)
(*                                                                         *)
(* REAL columns and JavaScript numbers are modelled as exact rationals     *)
(* <<n, d>> (d > 0, lowest terms).  Prices are counted in units of 1e-9    *)
(* USD, so that the placeholder price 0.000000001 is 1, and token amounts  *)
(* in units of 1e9 tokens, which leaves (amountSol * 150) / price and      *)
(* (amountToken * price) / 150 as written in the source.                   *)
(***************************************************************************)
EXTENDS Integers, Sequences, FiniteSets, TLC

(***************************************************************************)
(* Bounds of the model.                                                    *)
(***************************************************************************)
\* scan cycles (timer ticks of setInterval(scan, ...)) in one run; they may overlap
MaxScans == 2
\* monitor cycles (updatePnL) that may be in flight at the same time
MaxMonitors == 2
\* entries of one fetched batch that survive filterTokens
MaxBatch == 1
\* entries of the batch of a scan cycle that runs alone
MaxBatchAlone == 2

Tokens == {"A", "B"}
\* prices the market-data sources may report, in 1e-9 USD; 0 is "no price"
Prices == {0, 17, 20, 26}
\* values of Math.floor(Math.random() * 20) + 81 used by the model
Confidences == {81, 95}
\* values of process.env.AUTO_BUY_THRESHOLD used by the model (80 is the default)
Thresholds == {80, 95}

ScanIds == 1..MaxScans
MonIds == 1..MaxMonitors

(***************************************************************************)
(* Program constants.                                                      *)
(***************************************************************************)
INITIAL_BALANCE == 10
MIN_LIQUIDITY_USD == 10000
MIN_VOLUME_24H == 50000
SAFETY_THRESHOLD == 80
STOP_LOSS_PCT == 15
TAKE_PROFIT_PCT == 30
SOL_USD_RATE == 150
PLACEHOLDER_PRICE == 1

(***************************************************************************)
(* Exact rational arithmetic for JavaScript numbers / SQLite REAL.         *)
(***************************************************************************)
Euclid[p \in Nat \X Nat] == IF p[2] = 0 THEN p[1] ELSE Euclid[<<p[2], p[1] % p[2]>>]

GCD(a, b) == Euclid[<<a, b>>]

Abs(n) == IF n < 0 THEN -n ELSE n

\* the fraction p[1] / p[2] in lowest terms with a positive denominator
Lowest[p \in Int \X Int] ==
  LET s == IF p[2] < 0 THEN -1 ELSE 1
      g == GCD(Abs(p[1]), Abs(p[2]))
  IN  <<(s * p[1]) \div g, (s * p[2]) \div g>>

Rat(n, d) == Lowest[<<n, d>>]

RInt(n) == <<n, 1>>
RAdd(x, y) == Rat(x[1] * y[2] + y[1] * x[2], x[2] * y[2])
RSub(x, y) == Rat(x[1] * y[2] - y[1] * x[2], x[2] * y[2])
RMul(x, y) == Rat(x[1] * y[1], x[2] * y[2])
RDiv(x, y) == Rat(x[1] * y[2], x[2] * y[1])
RLe(x, y) == x[1] * y[2] <= y[1] * x[2]
RGe(x, y) == RLe(y, x)
RNeg(x) == <<-x[1], x[2]>>

\* the 0.1 SOL that analyzeAndTrade passes to executeVirtualBuy
TRADE_SIZE_SOL == Rat(1, 10)

VARIABLES
  db,     \* the SQLite tables: settings.virtual_balance, trades, positions, logs, opportunities
  env,    \* process.env: PAPER_TRADING_MODE, AUTO_BUY_THRESHOLD
  scan,   \* scan[s]: the s-th scan cycle (its position in scan / analyzeAndTrade / executeVirtualBuy)
  mon,    \* mon[m]: a monitor cycle (its position in updatePnL / executeVirtualSell)
  oracle  \* one call of getCurrentPrice followed fetch by fetch

vars == <<db, env, scan, mon, oracle>>


(***************************************************************************)
(* Rows of the tables (server.ts, db.exec).  Row ids are positions in the  *)
(* sequences (INTEGER PRIMARY KEY AUTOINCREMENT; no row is ever deleted    *)
(* from trades, positions or logs).                                        *)
(***************************************************************************)
PositionRow(tokenAddress, entryPrice, amountToken) ==
  [token_address |-> tokenAddress, entry_price |-> entryPrice,
   amount_token |-> amountToken, status |-> "OPEN", pnl_percent |-> RInt(0)]

TradeRow(tokenAddress, type, amountSol, amountToken, priceUsd) ==
  [token_address |-> tokenAddress, type |-> type, amount_sol |-> amountSol,
   amount_token |-> amountToken, price_usd |-> priceUsd]

LogRow(level, message, token) == [level |-> level, message |-> message, token |-> token]

\* the database right after db.exec on an empty file
InitDb ==
  [virtual_balance |-> RInt(INITIAL_BALANCE),
   trades          |-> <<>>,
   positions       |-> <<>>,
   logs            |-> <<>>,
   opportunities   |-> {}]

InsertLog(d, level, message, token) ==
  [d EXCEPT !.logs = Append(@, LogRow(level, message, token))]

\* the lookup without its status filter
SelectAnyPosition(d, tokenAddress) ==
  IF \E i \in DOMAIN d.positions : d.positions[i].token_address = tokenAddress
  THEN CHOOSE i \in DOMAIN d.positions : d.positions[i].token_address = tokenAddress
  ELSE 0

\* SELECT ... FROM positions WHERE token_address = ? AND status = 'OPEN'  (.get: the first row, 0 for none)
OpenIds(d, tokenAddress) ==
  {i \in DOMAIN d.positions :
     d.positions[i].token_address = tokenAddress /\ d.positions[i].status = "OPEN"}

Min(S) == CHOOSE x \in S : \A y \in S : x <= y

SelectOpenPosition(d, tokenAddress) ==
  IF OpenIds(d, tokenAddress) = {} THEN 0 ELSE Min(OpenIds(d, tokenAddress))

\* SELECT * FROM positions WHERE status = 'OPEN'  (.all, in rowid order)
RECURSIVE IdsFrom(_, _)
IdsFrom(d, i) ==
  IF i > Len(d.positions) THEN <<>>
  ELSE IF d.positions[i].status = "OPEN" THEN <<i>> \o IdsFrom(d, i + 1)
  ELSE IdsFrom(d, i + 1)

SelectOpenPositions(d) == IdsFrom(d, 1)

\* the positions table without its UNIQUE constraint
NoUniqueConstraint(d, tokenAddress) == FALSE

\* positions.token_address TEXT UNIQUE NOT NULL: the constraint covers every
\* row of the table whatever its status
UniqueViolation(d, tokenAddress) ==
  \E i \in DOMAIN d.positions : d.positions[i].token_address = tokenAddress

(***************************************************************************)
(* SimulationEngine.getCurrentPrice.  An answer of the two sources:        *)
(*   primary   "price" (a solana pair with priceUsd), "nodata" (no solana  *)
(*             pair, or a body without pairs), "throw" (fetch or json()    *)
(*             rejects)                                                    *)
(*   secondary "ok" (pumpRes.ok, with usd_market_cap), "notok", "throw"    *)
(* The secondary price is usd_market_cap / 1e9 USD, i.e. usd_market_cap    *)
(* units of 1e-9 USD.                                                      *)
(***************************************************************************)
PrimaryAnswers ==
  {[kind |-> "price", priceUsd |-> p] : p \in Prices \ {0}}
    \cup {[kind |-> "nodata", priceUsd |-> 0], [kind |-> "throw", priceUsd |-> 0]}

SecondaryAnswers ==
  {[kind |-> "ok", usd_market_cap |-> c] : c \in Prices}
    \cup {[kind |-> "notok", usd_market_cap |-> 0], [kind |-> "throw", usd_market_cap |-> 0]}

OracleAnswers == [primary : PrimaryAnswers, secondary : SecondaryAnswers]

getCurrentPrice(o) ==
  IF o.primary.kind = "throw" THEN 0
  ELSE IF o.primary.kind = "price" THEN o.primary.priceUsd
  ELSE IF o.secondary.kind = "throw" THEN 0
  ELSE IF o.secondary.kind = "ok" THEN o.secondary.usd_market_cap
  ELSE 0

\* what a call of getCurrentPrice can resolve to
OraclePrices == {getCurrentPrice(o) : o \in OracleAnswers}

(***************************************************************************)
(* The same call followed fetch by fetch.  oracle.answers is what the two  *)
(* sources are going to answer, fetched the sources awaited so far.        *)
(*   pc: "idle", "primary" (awaiting the DexScreener fetch), "secondary"   *)
(*   (awaiting the pump.fun fetch), "returned" (the promise resolved with  *)
(*   ret), "raised" (the promise rejected)                                 *)
(***************************************************************************)
InitOracle ==
  [pc |-> "idle", answers |-> [primary |-> [kind |-> "-"], secondary |-> [kind |-> "-"]],
   fetched |-> <<>>, ret |-> 0]

\* an exception that leaves getCurrentPrice
OracleUncaught(c) == [c EXCEPT !.pc = "raised"]

\* catch (e) { console.error(...); return 0; }
OracleCatch(c) == [c EXCEPT !.pc = "returned", !.ret = 0]

OracleReturn(c, value) == [c EXCEPT !.pc = "returned", !.ret = value]

\* getCurrentPrice is called
OracleCall ==
  /\ oracle.pc = "idle"
  /\ \E o \in OracleAnswers : oracle' = [oracle EXCEPT !.pc = "primary", !.answers = o]
  /\ UNCHANGED <<db, env, scan, mon>>

\* the DexScreener fetch and json() answer
OraclePrimary ==
  /\ oracle.pc = "primary"
  /\ LET c == [oracle EXCEPT !.fetched = Append(@, "primary")]
     IN  oracle' = IF c.answers.primary.kind = "throw" THEN OracleCatch(c)
                   ELSE IF c.answers.primary.kind = "price"
                   THEN OracleReturn(c, c.answers.primary.priceUsd)
                   ELSE [c EXCEPT !.pc = "secondary"]
  /\ UNCHANGED <<db, env, scan, mon>>

\* the pump.fun fetch answers
OracleSecondary ==
  /\ oracle.pc = "secondary"
  /\ LET c == [oracle EXCEPT !.fetched = Append(@, "secondary")]
     IN  oracle' = IF c.answers.secondary.kind = "throw" THEN OracleCatch(c)
                   ELSE IF c.answers.secondary.kind = "ok"
                   THEN OracleReturn(c, c.answers.secondary.usd_market_cap)
                   ELSE OracleReturn(c, 0)
  /\ UNCHANGED <<db, env, scan, mon>>

(***************************************************************************)
(* SimulationEngine.executeVirtualBuy, from the resolved price on.         *)
(***************************************************************************)
\* a transaction that does not roll back: the statements run before the throw stay
NoRollback(before, partial) == partial

\* what db.transaction leaves when a statement inside it throws: the
\* database as it was at BEGIN
Rollback(before, partial) == before

\* executeVirtualBuy with the debit issued before the transaction begins
BuyTransactionDebitOutside(d, tokenAddress, amountSol, amountToken, finalPrice) ==
  LET d1 == [d EXCEPT !.virtual_balance = RSub(@, amountSol)]
      d2 == [d1 EXCEPT !.trades =
                Append(@, TradeRow(tokenAddress, "BUY", amountSol, amountToken, finalPrice))]
  IN  IF UniqueViolation(d2, tokenAddress)
      THEN [ok |-> FALSE, db |-> d1]
      ELSE [ok |-> TRUE,
            db |-> InsertLog(
                     [d2 EXCEPT !.positions =
                         Append(@, PositionRow(tokenAddress, finalPrice, amountToken))],
                     "INFO", "Virtual Buy", tokenAddress)]

\* executeVirtualBuy inserting with OR REPLACE: the row of the token is deleted and inserted anew
BuyTransactionReplace(d, tokenAddress, amountSol, amountToken, finalPrice) ==
  LET d1 == [d EXCEPT !.virtual_balance = RSub(@, amountSol)]
      d2 == [d1 EXCEPT !.trades =
                Append(@, TradeRow(tokenAddress, "BUY", amountSol, amountToken, finalPrice))]
      old == {i \in DOMAIN d.positions : d.positions[i].token_address = tokenAddress}
  IN  [ok |-> TRUE,
       db |-> InsertLog(
                IF old = {}
                THEN [d2 EXCEPT !.positions =
                        Append(@, PositionRow(tokenAddress, finalPrice, amountToken))]
                ELSE [d2 EXCEPT !.positions[CHOOSE i \in old : TRUE] =
                        PositionRow(tokenAddress, finalPrice, amountToken)],
                "INFO", "Virtual Buy", tokenAddress)]

\* the body of the db.transaction of executeVirtualBuy: [ok, db]
BuyTransaction(d, tokenAddress, amountSol, amountToken, finalPrice) ==
  LET d1 == [d EXCEPT !.virtual_balance = RSub(@, amountSol)]
      d2 == [d1 EXCEPT !.trades =
                Append(@, TradeRow(tokenAddress, "BUY", amountSol, amountToken, finalPrice))]
  IN  IF UniqueViolation(d2, tokenAddress)
      THEN [ok |-> FALSE, db |-> Rollback(d, d2)]
      ELSE [ok |-> TRUE,
            db |-> InsertLog(
                     [d2 EXCEPT !.positions =
                         Append(@, PositionRow(tokenAddress, finalPrice, amountToken))],
                     "INFO", "Virtual Buy", tokenAddress)]

\* the resolved price used as it comes
FinalPriceAsResolved(priceUsd) == priceUsd

\* priceUsd || 0.000000001
FinalPrice(priceUsd) == IF priceUsd = 0 THEN PLACEHOLDER_PRICE ELSE priceUsd

\* return { success: true, priceUsd: finalPrice }
BuyResult(finalPrice) == [success |-> TRUE, priceUsd |-> finalPrice]

\* no value: executeVirtualBuy has not returned to this call
NoResult == [none |-> TRUE]

\* [threw, db, priceUsd]: threw when the transaction rethrows the constraint error
executeVirtualBuy(d, tokenAddress, priceUsd, amountSol) ==
  LET finalPrice  == FinalPrice(priceUsd)
      amountToken == RDiv(RMul(amountSol, RInt(SOL_USD_RATE)), RInt(finalPrice))
      tx          == BuyTransaction(d, tokenAddress, amountSol, amountToken, finalPrice)
  IN  [threw |-> ~tx.ok, db |-> tx.db, priceUsd |-> finalPrice]

(***************************************************************************)
(* SimulationEngine.executeVirtualSell, from the resolved price on.        *)
(***************************************************************************)
\* the change relative to the current price instead of the entry price
PnlPercentOfCurrent(price, entryPrice) ==
  IF price = 0 THEN RInt(0 - 100)
  ELSE RMul(RDiv(RSub(RInt(price), RInt(entryPrice)), RInt(price)), RInt(100))

PnlPercent(price, entryPrice) ==
  RMul(RDiv(RSub(RInt(price), RInt(entryPrice)), RInt(entryPrice)), RInt(100))

\* the body of the db.transaction of executeVirtualSell (no statement of it can fail)
SellTransaction(d, id, tokenAddress, amountToken, priceUsd, pnl, solReturned) ==
  InsertLog(
    [d EXCEPT !.virtual_balance = RAdd(@, solReturned),
              !.trades = Append(@, TradeRow(tokenAddress, "SELL", solReturned, amountToken, priceUsd)),
              !.positions[id].status = "CLOSED",
              !.positions[id].pnl_percent = pnl],
    "INFO", "Virtual Sell", tokenAddress)

\* executeVirtualSell logging the skipped close
executeVirtualSellLogsSkip(d, tokenAddress, amountToken, priceUsd) ==
  LET id == SelectOpenPosition(d, tokenAddress)
  IN  IF id = 0 THEN InsertLog(d, "WARN", "No open position", tokenAddress)
      ELSE SellTransaction(d, id, tokenAddress, amountToken, priceUsd,
                           PnlPercent(priceUsd, d.positions[id].entry_price),
                           RDiv(RMul(amountToken, RInt(priceUsd)), RInt(SOL_USD_RATE)))

\* executeVirtualSell converting at another rate than executeVirtualBuy
executeVirtualSellOtherRate(d, tokenAddress, amountToken, priceUsd) ==
  LET id == SelectOpenPosition(d, tokenAddress)
  IN  IF id = 0 THEN d
      ELSE SellTransaction(d, id, tokenAddress, amountToken, priceUsd,
                           PnlPercent(priceUsd, d.positions[id].entry_price),
                           RDiv(RMul(amountToken, RInt(priceUsd)), RInt(100)))

\* the position is looked up after the price await, in the same step as the transaction
executeVirtualSell(d, tokenAddress, amountToken, priceUsd) ==
  LET id == SelectOpenPosition(d, tokenAddress)
  IN  IF id = 0 THEN d
      ELSE SellTransaction(d, id, tokenAddress, amountToken, priceUsd,
                           PnlPercent(priceUsd, d.positions[id].entry_price),
                           RDiv(RMul(amountToken, RInt(priceUsd)), RInt(SOL_USD_RATE)))

(***************************************************************************)
(* Candidates.  A pair is one entry of the fetched batch with the two      *)
(* Math.random() draws of the simulated security check; TokenData keeps    *)
(* the fields the decision reads (symbol, name and priceUsd only reach     *)
(* log texts and the opportunities row).                                   *)
(***************************************************************************)
Liquidities == {5000, 20000}
Volumes == {10000, 80000}

TokenDatas ==
  [address : Tokens, liquidityUsd : Liquidities, volume24h : Volumes,
   mintDisabled : BOOLEAN, lpBurnt : BOOLEAN]

NoToken == [address |-> "-"]

\* the predicate of SimulationEngine.filterTokens on one pair (every pair of
\* the model is a solana pair younger than MAX_COIN_AGE_DAYS)
filterTokens(pair) ==
  pair.volume24h >= MIN_VOLUME_24H /\ pair.liquidityUsd >= MIN_LIQUIDITY_USD

\* what server.ts scan hands to analyzeAndTrade
FilteredPairs == {pair \in TokenDatas : filterTokens(pair)}

\* a score that is full as soon as one of the two signals holds
SafetyScoreEither(token) == IF token.mintDisabled \/ token.lpBurnt THEN 100 ELSE 0

SafetyScore(token) ==
  (IF token.mintDisabled THEN 50 ELSE 0) + (IF token.lpBurnt THEN 50 ELSE 0)

\* the values of the opportunities row of a candidate (id and created_at are not kept)
OpportunityRow(token) ==
  [token_address |-> token.address,
   liquidity_usd |-> token.liquidityUsd,
   is_safe       |-> IF SafetyScore(token) >= SAFETY_THRESHOLD THEN 1 ELSE 0,
   safety_score  |-> SafetyScore(token)]

\* a plain INSERT into a table without the UNIQUE column
InsertOpportunity(d, token) ==
  [d EXCEPT !.opportunities = @ \cup {OpportunityRow(token)}]

\* INSERT OR REPLACE INTO opportunities: token_address is UNIQUE, the row of
\* the same token is deleted before the insert
UpsertOpportunity(d, token) ==
  [d EXCEPT !.opportunities =
     {r \in @ : r.token_address # token.address} \cup {OpportunityRow(token)}]

(***************************************************************************)
(* AutonomousEngine.analyzeAndTrade up to its only await (the call of      *)
(* executeVirtualBuy).                                                     *)
(***************************************************************************)
NoRet == [action |-> "-", reason |-> "-"]
Ret(action, reason) == [action |-> action, reason |-> reason]
\* the promise of analyzeAndTrade rejected (caught by the per-entry catch of scan)
Thrown == Ret("THROWN", "UNIQUE constraint failed: positions.token_address")

\* the gates with the volume filter ahead of the liquidity filter
GatesVolumeFirst(token) ==
  IF token.volume24h < MIN_VOLUME_24H THEN "Low Volume"
  ELSE IF token.liquidityUsd < MIN_LIQUIDITY_USD THEN "Low Liquidity"
  ELSE IF SafetyScore(token) < SAFETY_THRESHOLD THEN "Unsafe (LP not burnt or Mint enabled)"
  ELSE ""

\* 1. Technical Filters, 2. Security Check: the reason of the first failing gate, "" for none
Gates(token) ==
  IF token.liquidityUsd < MIN_LIQUIDITY_USD THEN "Low Liquidity"
  ELSE IF token.volume24h < MIN_VOLUME_24H THEN "Low Volume"
  ELSE IF SafetyScore(token) < SAFETY_THRESHOLD THEN "Unsafe (LP not burnt or Mint enabled)"
  ELSE ""

\* paper trading taken as on whatever the environment says
PaperTradingAlways(e) == TRUE

\* process.env.PAPER_TRADING_MODE === 'true'
PaperTrading(e) == e.PAPER_TRADING_MODE

\* a comparison that leaves out the threshold itself
AboveThresholdStrict(confidence, e) == confidence > e.AUTO_BUY_THRESHOLD

\* confidence >= autoBuyThreshold
AboveThreshold(confidence, e) == confidence >= e.AUTO_BUY_THRESHOLD

\* [db, ret, callBuy]: callBuy when the function goes on to await executeVirtualBuy
\* confidence and debugLog are the two Math.random() draws
analyzeAndTrade(d, e, token, confidence, debugLog) ==
  IF Gates(token) # ""
  THEN [db |-> d, ret |-> Ret("SKIP", Gates(token)), callBuy |-> FALSE]
  ELSE IF AboveThreshold(confidence, e)
  THEN IF PaperTrading(e)
       THEN IF SelectOpenPosition(d, token.address) = 0
            THEN [db |-> InsertLog(d, "INFO", "Executing Autonomous Buy", token.address),
                  ret |-> NoRet, callBuy |-> TRUE]
            ELSE [db |-> d, ret |-> Ret("NONE", ""), callBuy |-> FALSE]
       ELSE [db |-> InsertLog(d, "WARN", "Real Trading is disabled", token.address),
             ret |-> Ret("NONE", ""), callBuy |-> FALSE]
  ELSE [db |-> IF debugLog THEN InsertLog(d, "DEBUG", "Below threshold", token.address) ELSE d,
        ret |-> Ret("NONE", ""), callBuy |-> FALSE]

(***************************************************************************)
(* Scan cycles: server.ts startScanner.scan.  setInterval(scan, 60000)     *)
(* starts a cycle whether or not the previous one has returned.            *)
(*   pc: "ready" (tick not fired yet), "fetch" (awaiting the candidate     *)
(*   fetch), "loop" (in the for loop, todo entries left), "buy" (inside    *)
(*   executeVirtualBuy, awaiting getCurrentPrice), "done" (returned after  *)
(*   the for loop), "failed" (returned because the fetch failed)           *)
(*   token, confidence, ret: the candidate, the confidence drawn for it (0 *)
(*   when a gate returned before the draw) and the value returned by the   *)
(*   last call of analyzeAndTrade; result: what executeVirtualBuy returned *)
(*   to that call                                                          *)
(***************************************************************************)
InitScan ==
  [pc |-> "ready", todo |-> 0, token |-> NoToken, confidence |-> 0, result |-> NoResult,
   ret |-> NoRet]

ScanTick(s) ==
  /\ scan[s].pc = "ready"
  /\ \A k \in ScanIds : k < s => scan[k].pc # "ready"
  /\ scan' = [scan EXCEPT ![s].pc = "fetch"]
  /\ UNCHANGED <<db, env, mon, oracle>>

\* a fetch failure that also clears the interval: no later tick fires
ScanFetchFailedStopsTimer(s) ==
  /\ scan[s].pc = "fetch"
  /\ scan' = [k \in ScanIds |->
               IF k = s \/ scan[k].pc = "ready" THEN [scan[k] EXCEPT !.pc = "failed"]
               ELSE scan[k]]
  /\ UNCHANGED <<db, env, mon, oracle>>

\* the fetch throws or answers !response.ok: the cycle returns
ScanFetchFailed(s) ==
  /\ scan[s].pc = "fetch"
  /\ scan' = [scan EXCEPT ![s].pc = "failed"]
  /\ UNCHANGED <<db, env, mon, oracle>>

\* the fetch answers a batch of n pairs that pass filterTokens, n up to max
ScanFetchedUpTo(s, max) ==
  /\ scan[s].pc = "fetch"
  /\ \E n \in 0..max : scan' = [scan EXCEPT ![s].pc = "loop", ![s].todo = n]
  /\ UNCHANGED <<db, env, mon, oracle>>

ScanFetched(s) == ScanFetchedUpTo(s, MaxBatch)

\* one iteration of the for loop on a pair of Pairs, up to the await inside executeVirtualBuy
ScanEntry(s, Pairs) ==
  /\ scan[s].pc = "loop"
  /\ scan[s].todo > 0
  /\ \E token \in Pairs, confidence \in Confidences, debugLog \in BOOLEAN :
       LET r == analyzeAndTrade(UpsertOpportunity(db, token), env, token, confidence, debugLog)
       IN  /\ db' = r.db
           /\ scan' = [scan EXCEPT ![s] =
                 IF r.callBuy
                 THEN [pc |-> "buy", todo |-> @.todo, token |-> token,
                       confidence |-> confidence, result |-> NoResult, ret |-> NoRet]
                 ELSE [pc |-> "loop", todo |-> @.todo - 1, token |-> token,
                       confidence |-> IF r.ret.action = "SKIP" THEN 0 ELSE confidence,
                       result |-> NoResult, ret |-> r.ret]]
  /\ UNCHANGED <<env, mon, oracle>>

\* one iteration of the for loop on a pair without baseToken (filterTokens does not
\* read it): pair.baseToken.address throws in the try, then again in the per-entry
\* catch that prints it, so the for loop is left for the outer catch and scan returns
ScanBadEntry(s) ==
  /\ scan[s].pc = "loop"
  /\ scan[s].todo > 0
  /\ scan' = [scan EXCEPT ![s] = [InitScan EXCEPT !.pc = "done"]]
  /\ UNCHANGED <<db, env, mon, oracle>>

\* getCurrentPrice answers inside executeVirtualBuy: the transaction, then the
\* [SUCCESS] log and return of analyzeAndTrade, or the rethrown constraint error
ScanBuy(s) ==
  /\ scan[s].pc = "buy"
  /\ \E priceUsd \in OraclePrices :
       LET b == executeVirtualBuy(db, scan[s].token.address, priceUsd, TRADE_SIZE_SOL)
       IN  /\ db' = IF b.threw THEN b.db
                    ELSE InsertLog(b.db, "SUCCESS", "Position opened", scan[s].token.address)
           /\ scan' = [scan EXCEPT ![s].pc = "loop", ![s].todo = @ - 1,
                                   ![s].result = IF b.threw THEN NoResult
                                                 ELSE BuyResult(b.priceUsd),
                                   ![s].ret = IF b.threw THEN Thrown ELSE Ret("BUY", "")]
  /\ UNCHANGED <<env, mon, oracle>>

\* the for loop is over: scan returns
ScanEnd(s) ==
  /\ scan[s].pc = "loop"
  /\ scan[s].todo = 0
  /\ scan' = [scan EXCEPT ![s] = [InitScan EXCEPT !.pc = "done"]]
  /\ UNCHANGED <<db, env, mon, oracle>>

(***************************************************************************)
(* Monitor cycles: server.ts startScanner.updatePnL.  queue holds the ids  *)
(* of the rows listed by the SELECT that are still to be visited; the      *)
(* columns the loop reads from a listed row (token_address, entry_price,   *)
(* amount_token) are never updated, so they are read from the table.       *)
(*   pc: "idle", "price" (awaiting getCurrentPrice for Head(queue)),       *)
(*   "sell" (inside executeVirtualSell, awaiting getCurrentPrice)          *)
(*   currentPrice: what getCurrentPrice last answered in the loop          *)
(***************************************************************************)
InitMon == [pc |-> "idle", queue |-> <<>>, currentPrice |-> 0]

\* the loop moves on to the next listed row, or updatePnL returns
MonNext(m, currentPrice) ==
  IF Len(mon[m].queue) > 1
  THEN [pc |-> "price", queue |-> Tail(mon[m].queue), currentPrice |-> currentPrice]
  ELSE [InitMon EXCEPT !.currentPrice = currentPrice]

\* the stop-loss compared without its sign
CrossedUnsigned(pnl) ==
  RLe(pnl, RInt(STOP_LOSS_PCT)) \/ RGe(pnl, RInt(TAKE_PROFIT_PCT))

\* thresholds that are crossed only beyond the boundary
CrossedStrict(pnl) ==
  (~RGe(pnl, RNeg(RInt(STOP_LOSS_PCT)))) \/ (~RLe(pnl, RInt(TAKE_PROFIT_PCT)))

\* pnl <= -sl || pnl >= tp
Crossed(pnl) ==
  RLe(pnl, RNeg(RInt(STOP_LOSS_PCT))) \/ RGe(pnl, RInt(TAKE_PROFIT_PCT))

\* a refresh that also books the unrealised PnL on the balance
UpdatePnlAndBalance(d, id, pnl) ==
  [d EXCEPT !.positions[id].pnl_percent = pnl,
            !.virtual_balance = RAdd(@, RDiv(pnl, RInt(100)))]

\* UPDATE positions SET pnl_percent = ? WHERE id = ?
UpdatePnlPercent(d, id, pnl) == [d EXCEPT !.positions[id].pnl_percent = pnl]

MonitorTick(m) ==
  /\ mon[m].pc = "idle"
  /\ \A k \in MonIds : k < m => mon[k].pc # "idle"
  /\ SelectOpenPositions(db) # <<>>
  /\ mon' = [mon EXCEPT ![m] = [pc |-> "price", queue |-> SelectOpenPositions(db),
                                 currentPrice |-> 0]]
  /\ UNCHANGED <<db, env, scan, oracle>>

\* getCurrentPrice answers in the loop of updatePnL, with one of the prices Answers(entry
\* price) that the oracle can give for the position
MonitorPriceIn(m, Answers(_)) ==
  /\ mon[m].pc = "price"
  /\ \E currentPrice \in Answers(db.positions[Head(mon[m].queue)].entry_price) :
       LET pos == db.positions[Head(mon[m].queue)]
           pnl == PnlPercent(currentPrice, pos.entry_price)
       IN  IF currentPrice > 0
           THEN /\ db' = UpdatePnlPercent(db, Head(mon[m].queue), pnl)
                /\ mon' = [mon EXCEPT ![m] =
                             IF Crossed(pnl)
                             THEN [@ EXCEPT !.pc = "sell", !.currentPrice = currentPrice]
                             ELSE MonNext(m, currentPrice)]
           ELSE /\ db' = db
                /\ mon' = [mon EXCEPT ![m] = MonNext(m, currentPrice)]
  /\ UNCHANGED <<env, scan, oracle>>

AnyPrice(entryPrice) == OraclePrices

MonitorPrice(m) == MonitorPriceIn(m, AnyPrice)

\* getCurrentPrice answers inside executeVirtualSell
MonitorSell(m) ==
  /\ mon[m].pc = "sell"
  /\ \E priceUsd \in OraclePrices :
       LET pos == db.positions[Head(mon[m].queue)]
       IN  db' = executeVirtualSell(db, pos.token_address, pos.amount_token, priceUsd)
  /\ mon' = [mon EXCEPT ![m] = MonNext(m, mon[m].currentPrice)]
  /\ UNCHANGED <<env, scan, oracle>>

(***************************************************************************)
(* The bonding-curve monitor: PumpScanner.updatePnL.  A JavaScript value   *)
(* that may be undefined is <<>> when it is and <<v>> otherwise.           *)
(***************************************************************************)
\* const { priceUsd, marketCap } = <the number that getCurrentPrice returns>:
\* a number has neither property
Destructure(answer) == [priceUsd |-> <<>>, marketCap |-> <<>>]

\* v > 0 (false for undefined)
GreaterThanZero(v) == v # <<>> /\ v[1] > 0

\* the loop body of PumpScanner.updatePnL on row id after getCurrentPrice answered:
\* the table after it, and whether it goes on to call executeVirtualSell
PumpUpdatePnL(d, id, answer) ==
  LET got == Destructure(answer)
  IN  IF GreaterThanZero(got.priceUsd)
      THEN LET pnl == PnlPercent(got.priceUsd[1], d.positions[id].entry_price)
           IN  [db |-> UpdatePnlPercent(d, id, pnl), sell |-> Crossed(pnl)]
      ELSE [db |-> d, sell |-> FALSE]

(***************************************************************************)
(* Specifications.  Every scan cycle of ScanIds may overlap with every     *)
(* other and with the monitor cycles of Mons; Pairs is what the candidate  *)
(* source can answer.                                                      *)
(***************************************************************************)
Init ==
  /\ db = InitDb
  /\ env \in [PAPER_TRADING_MODE : BOOLEAN, AUTO_BUY_THRESHOLD : Thresholds]
  /\ scan = [s \in ScanIds |-> InitScan]
  /\ mon = [m \in MonIds |-> InitMon]
  /\ oracle = InitOracle

NextWith(Pairs, Mons) ==
  \/ \E s \in ScanIds : ScanTick(s)
  \/ \E s \in ScanIds : ScanFetchFailed(s)
  \/ \E s \in ScanIds : ScanFetched(s)
  \/ \E s \in ScanIds : ScanEntry(s, Pairs)
  \/ \E s \in ScanIds : ScanBuy(s)
  \/ \E s \in ScanIds : ScanEnd(s)
  \/ \E m \in Mons : MonitorTick(m)
  \/ \E m \in Mons : MonitorPrice(m)
  \/ \E m \in Mons : MonitorSell(m)

PairsOf(tokens) == {pair \in FilteredPairs : pair.address \in tokens}

\* server.ts as wired, two tokens, overlapping scan cycles, one monitor cycle at a time
Next == NextWith(FilteredPairs, {1})
Spec == Init /\ [][Next]_vars

\* server.ts as wired, one token, overlapping scan cycles and overlapping monitor cycles
NextMonitors == NextWith(PairsOf({"A"}), MonIds)
SpecMonitors == Init /\ [][NextMonitors]_vars

\* analyzeAndTrade called on any TokenData of one token (no filterTokens before it)
NextEngine == NextWith({token \in TokenDatas : token.address = "A"}, {1})
SpecEngine == Init /\ [][NextEngine]_vars

\* the steps of scan cycle s
ScanStep(s, Pairs) ==
  \/ ScanTick(s)
  \/ ScanFetchFailed(s)
  \/ ScanFetched(s)
  \/ ScanEntry(s, Pairs)
  \/ ScanBuy(s)
  \/ ScanEnd(s)

\* SpecEngine where every interval fires and every awaited fetch answers
SpecEngineFair ==
  /\ SpecEngine
  /\ \A s \in ScanIds : WF_vars(ScanStep(s, {token \in TokenDatas : token.address = "A"}))

\* the known prices at which a position entered at entryPrice is beyond a threshold
CrossingPrices(entryPrice) ==
  {p \in OraclePrices \ {0} :
     \/ (p - entryPrice) * 100 <= (0 - STOP_LOSS_PCT) * entryPrice
     \/ (p - entryPrice) * 100 >= TAKE_PROFIT_PCT * entryPrice}

\* one token, one monitor slot; the price that the monitor reads for a position stays
\* known and beyond a threshold; every interval fires and every awaited fetch answers
NextCrossing ==
  \/ \E s \in ScanIds : ScanStep(s, PairsOf({"A"}))
  \/ MonitorTick(1)
  \/ MonitorPriceIn(1, CrossingPrices)
  \/ MonitorSell(1)
SpecCrossing ==
  /\ Init /\ [][NextCrossing]_vars
  /\ WF_vars(MonitorTick(1))
  /\ WF_vars(MonitorPriceIn(1, CrossingPrices))
  /\ WF_vars(MonitorSell(1))

\* one scan cycle alone on a batch of up to MaxBatchAlone pairs, with or without baseToken
NextBatch ==
  \/ ScanTick(1)
  \/ ScanFetchFailed(1)
  \/ ScanFetchedUpTo(1, MaxBatchAlone)
  \/ ScanEntry(1, FilteredPairs)
  \/ ScanBadEntry(1)
  \/ ScanBuy(1)
  \/ ScanEnd(1)
SpecBatch == Init /\ [][NextBatch]_vars

\* one call of getCurrentPrice, for every pair of answers of the two sources
NextOracle == OracleCall \/ OraclePrimary \/ OracleSecondary
SpecOracle == Init /\ [][NextOracle]_vars

\* the number of opens of TRADE_SIZE_SOL that INITIAL_BALANCE pays for
OpensToDrain == RDiv(RInt(INITIAL_BALANCE), TRADE_SIZE_SOL)[1]

\* the n-th candidate of the earlier scan cycles: a token of its own that passes every gate
EarlierToken(n) ==
  [address |-> ToString(n), liquidityUsd |-> 20000, volume24h |-> 80000,
   mintDisabled |-> TRUE, lpBurnt |-> TRUE]

\* one earlier loop iteration of scan on the n-th token, in paper mode with the default
\* threshold: upsert, analyzeAndTrade, executeVirtualBuy at price 20, [SUCCESS] log
EarlierOpen(d, n) ==
  LET token == EarlierToken(n)
      r == analyzeAndTrade(UpsertOpportunity(d, token),
                           [PAPER_TRADING_MODE |-> TRUE, AUTO_BUY_THRESHOLD |-> 80],
                           token, 95, FALSE)
      b == executeVirtualBuy(r.db, token.address, 20, TRADE_SIZE_SOL)
  IN  InsertLog(b.db, "SUCCESS", "Position opened", token.address)

\* the tables after the earlier iterations lo..hi, in that order, on tables d
RECURSIVE OpenedEarlier(_, _, _)
OpenedEarlier(d, lo, hi) ==
  IF lo = hi THEN EarlierOpen(d, lo)
  ELSE LET mid == (lo + hi) \div 2
       IN  CHOOSE after \in {OpenedEarlier(half, mid + 1, hi) :
                               half \in {OpenedEarlier(d, lo, mid)}} : TRUE

\* the scan cycles that follow OpensToDrain opens, on one more token (the monitor finds no
\* known price for the open positions and leaves them as they are)
InitDrained ==
  /\ db = OpenedEarlier(InitDb, 1, OpensToDrain)
  /\ env \in [PAPER_TRADING_MODE : BOOLEAN, AUTO_BUY_THRESHOLD : Thresholds]
  /\ scan = [s \in ScanIds |-> InitScan]
  /\ mon = [m \in MonIds |-> InitMon]
  /\ oracle = InitOracle
NextDrained == \E s \in ScanIds : ScanStep(s, PairsOf({"A"}))
SpecDrained == InitDrained /\ [][NextDrained]_vars

(***************************************************************************)
(* Vocabulary of the properties.                                           *)
(***************************************************************************)
TradeIds(d, type) == {i \in DOMAIN d.trades : d.trades[i].type = type}

TradeIdsOf(d, type, t) == {i \in TradeIds(d, type) : d.trades[i].token_address = t}

ClosedIds(d, t) ==
  {i \in DOMAIN d.positions :
     d.positions[i].token_address = t /\ d.positions[i].status = "CLOSED"}

\* the sum of amount_sol over the trades of one side
RECURSIVE SumSol(_, _, _)
SumSol(d, type, i) ==
  IF i = 0 THEN RInt(0)
  ELSE IF d.trades[i].type = type THEN RAdd(SumSol(d, type, i - 1), d.trades[i].amount_sol)
  ELSE SumSol(d, type, i - 1)

TotalSol(d, type) == SumSol(d, type, Len(d.trades))

\* scan cycle s takes a step out of executeVirtualBuy
BuyStep(s) == scan[s].pc = "buy" /\ scan'[s].pc # "buy"

\* monitor cycle m takes a step out of executeVirtualSell
SellStep(m) == mon[m].pc = "sell" /\ mon'[m] # mon[m]

HeadToken(m) == db.positions[Head(mon[m].queue)].token_address

(***************************************************************************)
(* C1: in every reachable state, whatever the interleaving of scan and     *)
(* monitor cycles, at most one position of a token address is OPEN.        *)
(***************************************************************************)
C1_OneOpenPerToken == \A t \in Tokens : Cardinality(OpenIds(db, t)) <= 1

\* two scan cycles raced to open the same token: one opened it, the other's insert was refused
C1_Witness ==
  \E s1, s2 \in ScanIds :
    /\ scan[s1].ret.action = "BUY"
    /\ scan[s2].ret = Thrown
    /\ scan[s1].token.address = scan[s2].token.address
    /\ Cardinality(OpenIds(db, scan[s1].token.address)) = 1
    /\ \E t \in Tokens : OpenIds(db, t) = {}

(***************************************************************************)
(* C2: every position creation is paired with exactly one BUY trade and    *)
(* one debit: the BUY trades are as many as the position rows ever created *)
(* (rows are never deleted), token by token, and what has been debited     *)
(* from the balance is the sum of the BUY trades' SOL amounts, also when   *)
(* two scan cycles race to open the same token.                            *)
(***************************************************************************)
C2_BuyPairsCreation ==
  /\ Cardinality(TradeIds(db, "BUY")) = Len(db.positions)
  /\ \A t \in Tokens :
       Cardinality(TradeIdsOf(db, "BUY", t)) = Cardinality(OpenIds(db, t) \cup ClosedIds(db, t))
  /\ RSub(RAdd(RInt(INITIAL_BALANCE), TotalSol(db, "SELL")), db.virtual_balance)
       = TotalSol(db, "BUY")

\* a race on one token: the winner's position, trade and debit are there, the loser's are not
C2_Witness ==
  \E s \in ScanIds :
    /\ scan[s].ret = Thrown
    /\ Len(db.positions) = 1
    /\ Cardinality(TradeIds(db, "BUY")) = 1
    /\ db.virtual_balance = RSub(RInt(INITIAL_BALANCE), TRADE_SIZE_SOL)

(***************************************************************************)
(* C3: every transition to CLOSED is paired with exactly one SELL trade    *)
(* and one credit: when overlapping monitor cycles both call close for the *)
(* same position, the SELL trades of a token are as many as its CLOSED     *)
(* positions and what has been credited is the sum of the SELL trades.     *)
(***************************************************************************)
C3_SellPairsClose ==
  /\ \A t \in Tokens :
       Cardinality(TradeIdsOf(db, "SELL", t)) = Cardinality(ClosedIds(db, t))
  /\ RSub(RAdd(db.virtual_balance, TotalSol(db, "BUY")), RInt(INITIAL_BALANCE))
       = TotalSol(db, "SELL")

\* two monitor cycles called close for one position: one has closed it, the other is still inside close
C3_Witness ==
  \E m1, m2 \in MonIds :
    /\ m1 # m2
    /\ mon[m1].pc = "sell"
    /\ mon[m2].pc = "idle"
    /\ db.positions[Head(mon[m1].queue)].status = "CLOSED"
    /\ Cardinality(TradeIdsOf(db, "SELL", HeadToken(m1))) = 1

(***************************************************************************)
(* C4: the balance changes only in a position open or close.  A step that  *)
(* changes the balance or the trades appends exactly one trade, and moves  *)
(* the balance by that trade's SOL amount (down for BUY with a new OPEN    *)
(* row, up for SELL with a row going from OPEN to CLOSED); every other     *)
(* step (opportunity upsert, SKIP, NONE, PnL refresh) leaves both alone.   *)
(* So the balance is always initial - BUY amounts + SELL amounts.          *)
(***************************************************************************)
OpenedBy(d, d2) ==
  /\ Len(d2.trades) = Len(d.trades) + 1
  /\ SubSeq(d2.trades, 1, Len(d.trades)) = d.trades
  /\ d2.trades[Len(d2.trades)].type = "BUY"
  /\ d2.virtual_balance = RSub(d.virtual_balance, d2.trades[Len(d2.trades)].amount_sol)
  /\ Len(d2.positions) = Len(d.positions) + 1
  /\ SubSeq(d2.positions, 1, Len(d.positions)) = d.positions
  /\ d2.positions[Len(d2.positions)].status = "OPEN"
  /\ d2.positions[Len(d2.positions)].token_address = d2.trades[Len(d2.trades)].token_address

ClosedBy(d, d2) ==
  /\ Len(d2.trades) = Len(d.trades) + 1
  /\ SubSeq(d2.trades, 1, Len(d.trades)) = d.trades
  /\ d2.trades[Len(d2.trades)].type = "SELL"
  /\ d2.virtual_balance = RAdd(d.virtual_balance, d2.trades[Len(d2.trades)].amount_sol)
  /\ Len(d2.positions) = Len(d.positions)
  /\ \E id \in DOMAIN d.positions :
       /\ d.positions[id].status = "OPEN"
       /\ d2.positions[id].status = "CLOSED"
       /\ d2.positions[id].token_address = d2.trades[Len(d2.trades)].token_address
       /\ \A k \in DOMAIN d.positions : k # id => d2.positions[k] = d.positions[k]

C4_BalanceOnlyInOpenClose ==
  [][/\ (db'.virtual_balance # db.virtual_balance \/ db'.trades # db.trades)
          => (OpenedBy(db, db') \/ ClosedBy(db, db'))
     /\ db'.virtual_balance
          = RAdd(RSub(RInt(INITIAL_BALANCE), TotalSol(db', "BUY")), TotalSol(db', "SELL"))]_vars

\* after an open, a refresh stored a PnL and a later candidate was upserted and skipped:
\* the balance is the initial one less the one BUY
C4_Witness ==
  /\ \E i \in DOMAIN db.positions :
       db.positions[i].status = "OPEN" /\ db.positions[i].pnl_percent # RInt(0)
  /\ \E s \in ScanIds :
       /\ scan[s].ret.action \in {"SKIP", "NONE"}
       /\ \E r \in db.opportunities : r.token_address = scan[s].token.address
  /\ db.virtual_balance = RSub(RInt(INITIAL_BALANCE), TRADE_SIZE_SOL)

(***************************************************************************)
(* C5: ledger open and close are all-or-nothing.  A step in which the      *)
(* position insert is refused leaves the whole database as it was (no      *)
(* debit, no trade row, no position change, no log of the unit); every     *)
(* other step either leaves balance, trades, position rows and statuses    *)
(* alone and writes no log of a unit, or applies a whole open (debit, BUY  *)
(* trade, OPEN row, "Virtual Buy" log) or a whole close (credit, SELL      *)
(* trade, CLOSED status, "Virtual Sell" log).  States are all that another *)
(* cycle or a status query can read, so none sees a unit half applied.     *)
(***************************************************************************)
UnitLogs(d) == {i \in DOMAIN d.logs : d.logs[i].message \in {"Virtual Buy", "Virtual Sell"}}

LogsSince(d, d2) == SubSeq(d2.logs, Len(d.logs) + 1, Len(d2.logs))

LedgerUntouched(d, d2) ==
  /\ d2.virtual_balance = d.virtual_balance
  /\ d2.trades = d.trades
  /\ Len(d2.positions) = Len(d.positions)
  /\ \A i \in DOMAIN d.positions :
       d2.positions[i] = [d.positions[i] EXCEPT !.pnl_percent = d2.positions[i].pnl_percent]
  /\ UnitLogs(d2) = UnitLogs(d)

WholeOpen(d, d2) ==
  /\ OpenedBy(d, d2)
  /\ Len(d2.logs) = Len(d.logs) + 2
  /\ LogsSince(d, d2)[1] = LogRow("INFO", "Virtual Buy", d2.trades[Len(d2.trades)].token_address)

WholeClose(d, d2) ==
  /\ ClosedBy(d, d2)
  /\ LogsSince(d, d2) = <<LogRow("INFO", "Virtual Sell", d2.trades[Len(d2.trades)].token_address)>>

C5_AllOrNothing ==
  [][/\ \A s \in ScanIds : (BuyStep(s) /\ scan'[s].ret = Thrown) => db' = db
     /\ LedgerUntouched(db, db') \/ WholeOpen(db, db') \/ WholeClose(db, db')]_vars

\* a refused insert: two buys were announced for the token, one unit is applied, the other left nothing
C5_Witness ==
  \E s \in ScanIds :
    /\ scan[s].ret = Thrown
    /\ Cardinality({i \in DOMAIN db.logs :
         db.logs[i] = LogRow("INFO", "Executing Autonomous Buy", scan[s].token.address)}) = 2
    /\ Cardinality(UnitLogs(db)) = 1
    /\ Len(db.trades) = 1

(***************************************************************************)
(* C6: close on a token with no OPEN position is a no-op: the step out of  *)
(* executeVirtualSell leaves the whole database (trades, balance, position *)
(* rows, logs) unchanged.                                                  *)
(***************************************************************************)
C6_CloseWithoutOpenIsNoOp ==
  [][\A m \in MonIds : (SellStep(m) /\ OpenIds(db, HeadToken(m)) = {}) => db' = db]_vars

\* a monitor cycle is inside close for a token whose position another cycle has just closed
C6_Witness ==
  \E m \in MonIds :
    /\ mon[m].pc = "sell"
    /\ OpenIds(db, HeadToken(m)) = {}
    /\ db.logs # <<>>
    /\ db.logs[Len(db.logs)] = LogRow("INFO", "Virtual Sell", HeadToken(m))

(***************************************************************************)
(* C7: open on a token that already has an OPEN position is a silent       *)
(* no-op: positions, trades and balance are unchanged and the caller gets  *)
(* no error.                                                               *)
(***************************************************************************)
C7_DuplicateOpenSilent ==
  [][\A s \in ScanIds :
       (BuyStep(s) /\ OpenIds(db, scan[s].token.address) # {})
         => /\ db'.positions = db.positions
            /\ db'.trades = db.trades
            /\ db'.virtual_balance = db.virtual_balance
            /\ scan'[s].ret # Thrown]_vars

(***************************************************************************)
(* C8: uniqueness holds among OPEN positions only: open on a token whose   *)
(* position is CLOSED, and that has no OPEN position, creates a new OPEN   *)
(* position, debits the balance and records a BUY trade.                   *)
(***************************************************************************)
C8_ReopenAfterClose ==
  [][\A s \in ScanIds :
       (/\ BuyStep(s)
        /\ OpenIds(db, scan[s].token.address) = {}
        /\ ClosedIds(db, scan[s].token.address) # {})
         => /\ OpenedBy(db, db')
            /\ OpenIds(db', scan[s].token.address) # {}
            /\ scan'[s].ret.action = "BUY"]_vars

(***************************************************************************)
(* C9: the gates are evaluated in the order liquidity, volume, safety and  *)
(* the first failing one wins: a candidate with liquidity below the        *)
(* minimum returns SKIP "Low Liquidity" whatever its other fields, one     *)
(* with enough liquidity and volume below the minimum returns SKIP         *)
(* "Low Volume", and in both cases nothing but the opportunities row that  *)
(* the scanner upserts before the call changes.                            *)
(***************************************************************************)
\* scan cycle s runs one iteration of its for loop
EntryStep(s) == scan[s].pc = "loop" /\ scan[s].todo > 0 /\ scan'[s] # scan[s]

OnlyOpportunitiesChange == db' = [db EXCEPT !.opportunities = db'.opportunities]

C9_GateOrder ==
  [][\A s \in ScanIds :
       EntryStep(s) =>
         /\ scan'[s].token.liquidityUsd < MIN_LIQUIDITY_USD
              => (scan'[s].ret = Ret("SKIP", "Low Liquidity") /\ OnlyOpportunitiesChange)
         /\ (scan'[s].token.liquidityUsd >= MIN_LIQUIDITY_USD
               /\ scan'[s].token.volume24h < MIN_VOLUME_24H)
              => (scan'[s].ret = Ret("SKIP", "Low Volume") /\ OnlyOpportunitiesChange)]_vars

\* a candidate failing both the liquidity and the volume gate was skipped for its liquidity,
\* and another one failing only the volume gate for its volume
C9_Witness ==
  \E s1, s2 \in ScanIds :
    /\ scan[s1].ret.reason = "Low Liquidity"
    /\ scan[s1].token.volume24h < MIN_VOLUME_24H
    /\ scan[s2].ret.reason = "Low Volume"
    /\ ~scan[s2].token.mintDisabled

(***************************************************************************)
(* C10: a candidate that passes the liquidity and volume gates is skipped  *)
(* as unsafe exactly when 50 (mint disabled) + 50 (LP burnt) is below 80,  *)
(* and every position row is created by a scan cycle whose candidate has   *)
(* both mintDisabled and lpBurnt.                                          *)
(***************************************************************************)
C10_SafetyGate ==
  [][/\ \A s \in ScanIds :
          (/\ EntryStep(s)
           /\ scan'[s].token.liquidityUsd >= MIN_LIQUIDITY_USD
           /\ scan'[s].token.volume24h >= MIN_VOLUME_24H)
            => ((IF scan'[s].token.mintDisabled THEN 50 ELSE 0)
                  + (IF scan'[s].token.lpBurnt THEN 50 ELSE 0) < 80
                <=> (scan'[s].ret.action = "SKIP" /\ scan'[s].ret.reason
                       = "Unsafe (LP not burnt or Mint enabled)"))
     /\ Len(db'.positions) > Len(db.positions)
          => \E s \in ScanIds :
               /\ BuyStep(s)
               /\ scan[s].token.mintDisabled /\ scan[s].token.lpBurnt
               /\ db'.positions[Len(db'.positions)].token_address = scan[s].token.address]_vars

\* a candidate with the mint disabled and the LP not burnt (score 50) was skipped as unsafe,
\* after a position was opened for a candidate with both
C10_Witness ==
  \E s1, s2 \in ScanIds :
    /\ scan[s1].ret.action = "SKIP"
    /\ scan[s1].token.mintDisabled /\ ~scan[s1].token.lpBurnt
    /\ scan[s1].token.liquidityUsd >= MIN_LIQUIDITY_USD
    /\ scan[s1].token.volume24h >= MIN_VOLUME_24H
    /\ scan[s2].ret.action = "BUY"
    /\ Len(db.positions) = 1

(***************************************************************************)
(* C11: for a candidate that passes the three gates, with paper mode on    *)
(* and no position row of its token (when the call starts and still when   *)
(* the open commits), the call goes on to buy iff the confidence is at or  *)
(* above the threshold; below it the call returns NONE and the ledger is   *)
(* untouched; the buy returns BUY and creates exactly one OPEN position    *)
(* and one BUY trade of the token and takes 0.1 SOL from the balance.      *)
(***************************************************************************)
PositionIds(d, t) == {i \in DOMAIN d.positions : d.positions[i].token_address = t}

C11_BuyIffConfident ==
  [][\A s \in ScanIds :
       /\ (/\ EntryStep(s)
           /\ Gates(scan'[s].token) = ""
           /\ env.PAPER_TRADING_MODE
           /\ PositionIds(db, scan'[s].token.address) = {})
            => /\ scan'[s].confidence >= env.AUTO_BUY_THRESHOLD <=> scan'[s].pc = "buy"
               /\ scan'[s].confidence < env.AUTO_BUY_THRESHOLD
                    => (scan'[s].ret = Ret("NONE", "") /\ LedgerUntouched(db, db'))
       /\ (BuyStep(s) /\ PositionIds(db, scan[s].token.address) = {})
            => /\ scan'[s].ret = Ret("BUY", "")
               /\ Len(db'.positions) = Len(db.positions) + 1
               /\ OpenIds(db', scan[s].token.address) = {Len(db'.positions)}
               /\ TradeIdsOf(db', "BUY", scan[s].token.address) = {Len(db'.trades)}
               /\ Len(db'.trades) = Len(db.trades) + 1
               /\ db'.virtual_balance = RSub(db.virtual_balance, Rat(1, 10))]_vars

\* a confidence equal to the threshold has bought, a confidence below it has returned NONE
C11_Witness ==
  \E s1, s2 \in ScanIds :
    /\ env.PAPER_TRADING_MODE
    /\ scan[s1].ret.action = "BUY" /\ scan[s1].confidence = env.AUTO_BUY_THRESHOLD
    /\ scan[s2].ret.action = "NONE"
    /\ scan[s2].confidence > 0 /\ scan[s2].confidence < env.AUTO_BUY_THRESHOLD
    /\ Len(db.positions) = 1
    /\ db.virtual_balance = Rat(99, 10)

(***************************************************************************)
(* C12: with paper-trading mode disabled no sequence of scan cycles ever   *)
(* creates a position, records a BUY trade or debits the balance, whatever *)
(* the candidates and the confidence values.                               *)
(***************************************************************************)
C12_NoBuyWithoutPaperMode ==
  ~env.PAPER_TRADING_MODE
    => /\ db.positions = <<>>
       /\ TradeIds(db, "BUY") = {}
       /\ db.virtual_balance = RInt(INITIAL_BALANCE)
       /\ \A s \in ScanIds : scan[s].pc # "buy"

\* paper mode is off and a candidate past the gates with a confidence at the threshold was turned down
C12_Witness ==
  \E s \in ScanIds :
    /\ ~env.PAPER_TRADING_MODE
    /\ scan[s].ret = Ret("NONE", "")
    /\ scan[s].confidence >= env.AUTO_BUY_THRESHOLD
    /\ Gates(scan[s].token) = ""
    /\ \E i \in DOMAIN db.logs : db.logs[i].message = "Real Trading is disabled"

(***************************************************************************)
(* C13: a BUY decision that is not actionable, because paper mode is off   *)
(* or because the token already has an OPEN position, degrades to a logged *)
(* no-op: in both cases the call returns without touching the ledger and   *)
(* appends a log entry recording the suppressed buy.                       *)
(***************************************************************************)
C13_SuppressedBuyLogged ==
  [][\A s \in ScanIds :
       (/\ EntryStep(s)
        /\ Gates(scan'[s].token) = ""
        /\ scan'[s].confidence >= env.AUTO_BUY_THRESHOLD
        /\ (~env.PAPER_TRADING_MODE \/ OpenIds(db, scan'[s].token.address) # {}))
         => /\ scan'[s].ret = Ret("NONE", "")
            /\ LedgerUntouched(db, db')
            /\ Len(db'.logs) = Len(db.logs) + 1
            /\ db'.logs[Len(db'.logs)].token = scan'[s].token.address]_vars

(***************************************************************************)
(* C14: when a monitor cycle resolves a known (non-zero) price for an OPEN *)
(* position whose PnL at that price is at or below -15 or at or above +30  *)
(* (boundaries included), the cycle goes on to close that position; the    *)
(* step out of close leaves the position CLOSED with exactly one SELL      *)
(* trade of its token, and the cycle that closes it credits the balance    *)
(* with that trade's SOL amount.                                           *)
(***************************************************************************)
\* monitor cycle m takes the step in which getCurrentPrice answers in its loop
PriceStep(m) == mon[m].pc = "price" /\ mon'[m] # mon[m]

HeadPosition(m) == db.positions[Head(mon[m].queue)]

\* the PnL of the position monitor cycle m is at, at the price the cycle has just resolved
ObservedPnl(m) == PnlPercent(mon'[m].currentPrice, HeadPosition(m).entry_price)

C14_CrossingCloses ==
  [][\A m \in MonIds :
       /\ (/\ PriceStep(m)
           /\ mon'[m].currentPrice > 0
           /\ HeadPosition(m).status = "OPEN"
           /\ \/ RLe(ObservedPnl(m), Rat(0 - 15, 1))
              \/ RGe(ObservedPnl(m), Rat(30, 1)))
            => (mon'[m].pc = "sell" /\ mon'[m].queue = mon[m].queue)
       /\ SellStep(m)
            => /\ db'.positions[Head(mon[m].queue)].status = "CLOSED"
               /\ Cardinality(TradeIdsOf(db', "SELL", HeadToken(m))) = 1
       /\ (SellStep(m) /\ HeadPosition(m).status = "OPEN")
            => /\ ClosedBy(db, db')
               /\ db'.trades[Len(db'.trades)].token_address = HeadToken(m)]_vars

\* a position entered at 20 was closed by a cycle that had observed 17, a PnL of exactly -15
C14_Witness ==
  \E m \in MonIds, id \in DOMAIN db.positions :
    /\ mon[m].pc = "idle" /\ mon[m].currentPrice = 17
    /\ db.positions[id].entry_price = 20
    /\ db.positions[id].status = "CLOSED"
    /\ Cardinality(TradeIds(db, "SELL")) = 1

(***************************************************************************)
(* C15: the PnL recorded on a position closed by the monitor is the PnL of *)
(* the price the monitor observed when it decided to close, so the PnL     *)
(* recorded by a close is at or below -stop-loss or at or above            *)
(* +take-profit, also when the oracle's price changes between the          *)
(* monitor's read and the close.                                           *)
(***************************************************************************)
C15_ClosePnlIsObservedPnl ==
  [][\A m \in MonIds :
       (SellStep(m) /\ HeadPosition(m).status = "OPEN")
         => /\ db'.positions[Head(mon[m].queue)].pnl_percent
                 = PnlPercent(mon[m].currentPrice, HeadPosition(m).entry_price)
            /\ Crossed(db'.positions[Head(mon[m].queue)].pnl_percent)]_vars

(***************************************************************************)
(* C16: when a monitor cycle resolves a known price for an OPEN position   *)
(* whose PnL at that price lies strictly between -15 and +30, the position *)
(* stays OPEN, its stored PnL percent becomes the new value, nothing else  *)
(* in the database changes (no trade, same balance) and the cycle does not *)
(* enter close.                                                            *)
(***************************************************************************)
C16_WithinThresholdsOnlyRefreshes ==
  [][\A m \in MonIds :
       (/\ PriceStep(m)
        /\ mon'[m].currentPrice > 0
        /\ HeadPosition(m).status = "OPEN"
        /\ ~RLe(ObservedPnl(m), Rat(0 - 15, 1))
        /\ ~RGe(ObservedPnl(m), Rat(30, 1)))
         => /\ db' = [db EXCEPT !.positions[Head(mon[m].queue)].pnl_percent = ObservedPnl(m)]
            /\ db'.positions[Head(mon[m].queue)].status = "OPEN"
            /\ db'.trades = db.trades
            /\ db'.virtual_balance = db.virtual_balance
            /\ mon'[m].pc # "sell"]_vars

\* a position entered at 17 is still OPEN after a cycle observed 20: its PnL is 300/17 percent
C16_Witness ==
  \E m \in MonIds, id \in DOMAIN db.positions :
    /\ mon[m].pc = "idle" /\ mon[m].currentPrice = 20
    /\ db.positions[id].entry_price = 17
    /\ db.positions[id].status = "OPEN"
    /\ db.positions[id].pnl_percent = Rat(300, 17)
    /\ TradeIds(db, "SELL") = {}

(***************************************************************************)
(* C17: every PnL percent that is stored equals                            *)
(* (price - entry) / entry * 100 for the entry price of its position:      *)
(* a monitor refresh with known price p stores the formula at p, a close   *)
(* stores the formula at the price recorded on its SELL trade, and no      *)
(* other step changes a stored PnL percent.                                *)
(***************************************************************************)
\* (price - entry) / entry * 100 as one fraction
PnlFormula(price, entry) == Rat((price - entry) * 100, entry)

C17_StoredPnlIsFormula ==
  [][/\ \A m \in MonIds :
          /\ (PriceStep(m) /\ mon'[m].currentPrice > 0)
               => db'.positions[Head(mon[m].queue)].pnl_percent
                    = PnlFormula(mon'[m].currentPrice, HeadPosition(m).entry_price)
          /\ (SellStep(m) /\ HeadPosition(m).status = "OPEN")
               => db'.positions[Head(mon[m].queue)].pnl_percent
                    = PnlFormula(db'.trades[Len(db'.trades)].price_usd, HeadPosition(m).entry_price)
     /\ \A id \in DOMAIN db.positions :
          db'.positions[id].pnl_percent # db.positions[id].pnl_percent
            => \E m \in MonIds :
                 /\ mon[m].queue # <<>> /\ Head(mon[m].queue) = id
                 /\ PriceStep(m) \/ SellStep(m)]_vars

\* a position entered at 20 was closed with a SELL trade at 26 and stores +30
C17_Witness ==
  \E id \in DOMAIN db.positions, k \in DOMAIN db.trades :
    /\ db.positions[id].status = "CLOSED"
    /\ db.positions[id].entry_price = 20
    /\ db.trades[k].type = "SELL" /\ db.trades[k].price_usd = 26
    /\ db.positions[id].pnl_percent = Rat(30, 1)

(***************************************************************************)
(* C18: every caller of the price oracle treats a zero price as unknown    *)
(* and skips: no SELL trade has price 0 and no position is CLOSED with a   *)
(* PnL of -100 percent.                                                    *)
(***************************************************************************)
C18_ZeroPriceNeverActedOn ==
  /\ \A k \in DOMAIN db.trades : db.trades[k].type = "SELL" => db.trades[k].price_usd > 0
  /\ \A id \in DOMAIN db.positions :
       db.positions[id].status = "CLOSED" => db.positions[id].pnl_percent # Rat(0 - 100, 1)

(***************************************************************************)
(* C19: open never fails because the price is unknown: whatever the oracle *)
(* answers, zero included, open on a token without a position row creates  *)
(* the position, and every position ever created has an entry price > 0,   *)
(* so that the division by the entry price in the PnL is defined.          *)
(***************************************************************************)
C19_EntryPricePositive ==
  [][/\ \A s \in ScanIds :
          (BuyStep(s) /\ PositionIds(db, scan[s].token.address) = {})
            => /\ Len(db'.positions) = Len(db.positions) + 1
               /\ scan'[s].ret.action = "BUY"
     /\ \A id \in DOMAIN db'.positions :
          /\ db'.positions[id].entry_price > 0
          /\ db'.positions[id].amount_token[2] # 0
          /\ db'.positions[id].pnl_percent[2] # 0]_vars

\* a position filled at the placeholder (0.1 * 150 / 1 units of tokens) has had its PnL refreshed
C19_Witness ==
  \E id \in DOMAIN db.positions :
    /\ db.positions[id].entry_price = 1
    /\ db.positions[id].amount_token = Rat(15, 1)
    /\ db.positions[id].pnl_percent # Rat(0, 1)
    /\ db.positions[id].status = "OPEN"

(***************************************************************************)
(* C20: when open fills at the placeholder price because the price was     *)
(* unknown, the result returned to the caller flags the fill as degraded.  *)
(* No oracle answer of Prices is the placeholder, so a position entered at *)
(* PLACEHOLDER_PRICE is a placeholder fill.                                *)
(***************************************************************************)
C20_PlaceholderFillFlagged ==
  [][\A s \in ScanIds :
       (/\ BuyStep(s)
        /\ Len(db'.positions) = Len(db.positions) + 1
        /\ db'.positions[Len(db'.positions)].entry_price = PLACEHOLDER_PRICE)
         => /\ "degraded" \in DOMAIN scan'[s].result
            /\ scan'[s].result.degraded]_vars

(***************************************************************************)
(* C21: the price oracle never raises to its caller: for every combination *)
(* of answers of the two sources it returns a value, the primary price     *)
(* when there is one, else the secondary price when the primary answered   *)
(* without data and the secondary answered, else zero; the secondary is    *)
(* fetched only after the primary answered without a price, and no source  *)
(* is fetched twice in one call.                                           *)
(***************************************************************************)
C21_OracleNeverRaises ==
  /\ oracle.pc # "raised"
  /\ Len(oracle.fetched) <= 2
  /\ \A i, j \in DOMAIN oracle.fetched : oracle.fetched[i] = oracle.fetched[j] => i = j
  /\ (\E i \in DOMAIN oracle.fetched : oracle.fetched[i] = "secondary")
       => (oracle.fetched[1] = "primary" /\ oracle.answers.primary.kind = "nodata")
  /\ oracle.pc = "returned"
       => /\ oracle.ret =
               IF oracle.answers.primary.kind = "price" THEN oracle.answers.primary.priceUsd
               ELSE IF oracle.answers.primary.kind = "nodata"
                       /\ oracle.answers.secondary.kind = "ok"
               THEN oracle.answers.secondary.usd_market_cap
               ELSE 0
          /\ oracle.ret = getCurrentPrice(oracle.answers)
          /\ (oracle.answers.primary.kind # "price" /\ oracle.answers.secondary.kind # "ok")
               => oracle.ret = 0

\* the primary answered without data, then the secondary fetch threw: the call returned zero
C21_Witness ==
  /\ oracle.pc = "returned"
  /\ oracle.answers.primary.kind = "nodata"
  /\ oracle.answers.secondary.kind = "throw"
  /\ oracle.fetched = <<"primary", "secondary">>
  /\ oracle.ret = 0

(***************************************************************************)
(* C22: CLOSED is terminal and positions are never deleted: a position     *)
(* that is CLOSED is CLOSED after every step, and every step keeps every   *)
(* position row (its token, entry price and amount), adding rows at most.  *)
(***************************************************************************)
C22_ClosedIsTerminal ==
  [][/\ Len(db'.positions) >= Len(db.positions)
     /\ \A id \in DOMAIN db.positions :
          /\ db'.positions[id].token_address = db.positions[id].token_address
          /\ db'.positions[id].entry_price = db.positions[id].entry_price
          /\ db'.positions[id].amount_token = db.positions[id].amount_token
          /\ db.positions[id].status = "CLOSED" => db'.positions[id].status = "CLOSED"]_vars

\* after the close, a scan cycle tried to buy the token again and a monitor cycle that had
\* listed the position came back from close: the position is still CLOSED
C22_Witness ==
  \E id \in DOMAIN db.positions, s \in ScanIds, m \in MonIds :
    /\ db.positions[id].status = "CLOSED"
    /\ scan[s].ret = Thrown
    /\ scan[s].token.address = db.positions[id].token_address
    /\ Cardinality(TradeIds(db, "SELL")) = 1
    /\ mon[m].pc = "sell"

(***************************************************************************)
(* C23: opportunity recording is an idempotent last-write-wins upsert      *)
(* keyed by token address: after every step there is at most one           *)
(* opportunities row per token address; a scan of a candidate leaves for   *)
(* its token exactly the row of that candidate's values and the rows of    *)
(* the other tokens as they were; recording the same candidate once more   *)
(* changes nothing; the step changes no position, trade or balance; and    *)
(* no other step changes the table.                                        *)
(***************************************************************************)
C23_OpportunityUpsert ==
  [][/\ \A t \in Tokens :
          Cardinality({r \in db'.opportunities : r.token_address = t}) <= 1
     /\ \A s \in ScanIds :
          EntryStep(s) =>
            LET token == scan'[s].token
                row   == [token_address |-> token.address,
                          liquidity_usd |-> token.liquidityUsd,
                          is_safe       |-> IF token.mintDisabled /\ token.lpBurnt
                                            THEN 1 ELSE 0,
                          safety_score  |-> (IF token.mintDisabled THEN 50 ELSE 0)
                                              + (IF token.lpBurnt THEN 50 ELSE 0)]
            IN  /\ row \in db'.opportunities
                /\ db'.opportunities \ {row}
                     = {r \in db.opportunities : r.token_address # token.address}
                /\ UpsertOpportunity(db', token) = db'
                /\ db'.positions = db.positions
                /\ db'.trades = db.trades
                /\ db'.virtual_balance = db.virtual_balance
     /\ db'.opportunities # db.opportunities => \E s \in ScanIds : EntryStep(s)]_vars

\* a token was scanned twice with different values: its only row holds those of one scan
C23_Witness ==
  \E s1, s2 \in ScanIds :
    /\ scan[s1].ret # NoRet /\ scan[s2].ret # NoRet
    /\ scan[s1].token.address = scan[s2].token.address
    /\ scan[s1].token.liquidityUsd # scan[s2].token.liquidityUsd
    /\ db.opportunities = {OpportunityRow(scan[s2].token)}

(***************************************************************************)
(* C24: a single bad entry never aborts the batch: whatever happens to one *)
(* entry (a pair without its base-token record, an error thrown while      *)
(* deciding or opening), the cycle goes on to the remaining entries of the *)
(* batch: an iteration that starts with more than one entry left does not  *)
(* end the cycle and leaves one entry less to process.                     *)
(***************************************************************************)
C24_BadEntryDoesNotAbortBatch ==
  [][\A s \in ScanIds :
       /\ (EntryStep(s) /\ scan[s].todo >= 2)
            => /\ scan'[s].pc \in {"loop", "buy"}
               /\ scan'[s].pc = "loop" => scan'[s].todo = scan[s].todo - 1
       /\ (BuyStep(s) /\ scan[s].todo >= 2)
            => (scan'[s].pc = "loop" /\ scan'[s].todo = scan[s].todo - 1)]_vars

(***************************************************************************)
(* C25: a failure of the whole candidate fetch ends that scan cycle with   *)
(* no change to opportunities, positions, trades or balance and without    *)
(* touching any other cycle; the loop is not stopped: every later tick     *)
(* still fires, and a cycle whose fetch answers processes its batch to the *)
(* end.                                                                    *)
(***************************************************************************)
C25_FetchFailureEndsCycleOnly ==
  /\ [][\A s \in ScanIds :
          (scan[s].pc = "fetch" /\ scan'[s].pc \notin {"fetch", "loop"})
            => /\ db' = db
               /\ scan'[s].pc = "failed"
               /\ \A k \in ScanIds \ {s} : scan'[k] = scan[k]]_vars
  /\ \A s \in ScanIds : <>(scan[s].pc # "ready")
  /\ \A s \in ScanIds : (scan[s].pc = "loop") ~> (scan[s].pc = "done")

\* the first cycle failed on its fetch and changed nothing; the tick after it fired and that
\* cycle processed a candidate
C25_Witness ==
  /\ scan[1].pc = "failed"
  /\ scan[2].pc = "loop" /\ scan[2].ret # NoRet
  /\ db.opportunities = {OpportunityRow(scan[2].token)}

(***************************************************************************)
(* C26: each recurring cycle is guarded against overlap: at most one scan  *)
(* cycle and at most one monitor cycle are in progress at any time.        *)
(***************************************************************************)
C26_NoOverlappingCycles ==
  /\ Cardinality({s \in ScanIds : scan[s].pc \in {"fetch", "loop", "buy"}}) <= 1
  /\ Cardinality({m \in MonIds : mon[m].pc \in {"price", "sell"}}) <= 1

(***************************************************************************)
(* C27: the PnL refresh only writes to a position that is OPEN at the      *)
(* moment of the write: once a position is CLOSED its stored PnL percent   *)
(* never changes, also when an overlapping monitor cycle that listed the   *)
(* position while it was OPEN resumes after the close.                     *)
(***************************************************************************)
C27_ClosedPnlFrozen ==
  [][\A id \in DOMAIN db.positions :
       db.positions[id].status = "CLOSED"
         => db'.positions[id].pnl_percent = db.positions[id].pnl_percent]_vars

(***************************************************************************)
(* C28: under fair monitor ticks, an OPEN position whose oracle price      *)
(* stays known at a level whose PnL is at or below -stop-loss or at or     *)
(* above +take-profit is eventually CLOSED.                                *)
(***************************************************************************)
C28_CrossingEventuallyCloses ==
  \A t \in Tokens : (OpenIds(db, t) # {}) ~> (OpenIds(db, t) = {} /\ ClosedIds(db, t) # {})

\* a position entered at 20 whose price stayed at a crossing level is CLOSED
C28_Witness ==
  \E id \in DOMAIN db.positions :
    /\ db.positions[id].status = "CLOSED"
    /\ db.positions[id].entry_price = 20
    /\ mon[1].pc = "idle" /\ mon[1].currentPrice \in {17, 26}

(***************************************************************************)
(* C29: the decision is deterministic: two invocations of analyzeAndTrade  *)
(* with the same candidate, the same thresholds, the same paper-mode flag  *)
(* and the same ledger state return the same action, whatever the auto-buy *)
(* threshold.  env never changes, and the ledger (balance, trades,         *)
(* positions) only grows, so while it is still the initial one every call  *)
(* made so far was made on that same ledger.                               *)
(***************************************************************************)
\* a call of analyzeAndTrade made by scan cycle s returns in this step
Returns(s) == scan[s].pc \in {"loop", "buy"} /\ scan'[s].ret # NoRet /\ scan'[s] # scan[s]

LedgerInitial(d) ==
  d.virtual_balance = InitDb.virtual_balance /\ d.trades = <<>> /\ d.positions = <<>>

C29_DecisionDeterministic ==
  [][\A s1, s2 \in ScanIds :
       (/\ Returns(s1)
        /\ LedgerInitial(db)
        /\ scan[s2].ret # NoRet
        /\ scan[s2].token = scan'[s1].token)
         => scan'[s1].ret.action = scan[s2].ret.action]_vars

(***************************************************************************)
(* C30: from the same ledger state and with the same oracle answer, the    *)
(* bonding-curve monitor (PumpScanner.updatePnL) and the general-market    *)
(* monitor (updatePnL of server.ts) store the same PnL and close the same  *)
(* positions: whenever the general-market monitor handles an answer, the   *)
(* bonding-curve loop body leaves the same table and takes the same        *)
(* decision to sell.                                                       *)
(***************************************************************************)
C30_MonitorsAgree ==
  [][\A m \in MonIds :
       PriceStep(m) =>
         LET pump == PumpUpdatePnL(db, Head(mon[m].queue), mon'[m].currentPrice)
         IN  db' = pump.db /\ (mon'[m].pc = "sell") = pump.sell]_vars

(***************************************************************************)
(* C31: the virtual balance never becomes negative: after any sequence of  *)
(* opens and closes from the initial balance of 10 SOL it is >= 0 (no open *)
(* is performed when the balance is smaller than the trade size).          *)
(***************************************************************************)
C31_BalanceNeverNegative == RGe(db.virtual_balance, RInt(0))

=============================================================================
